---- MODULE Spec2Model ----
(***************************************************************************)
(* A model of the tunnelling client FetchProxy (src/Proxy.ts) and of the   *)
(* raw HTTP response parser parseRawHttpResponse (src/unnamed/part_000).   *)
(*                                                                         *)
(* JavaScript values are represented as follows.                           *)
(*   - An optional value (a property that may be undefined) is a tuple of  *)
(*     length 0 (undefined) or 1 (the value).                              *)
(*   - A scalar is a TLA+ string; the boolean false is the string FalseV.  *)
(*   - An object literal is a sequence of <<key, optional value>> pairs in *)
(*     insertion order; the text JSON.stringify produces for it is the     *)
(*     sequence of its <<key, value>> members.                             *)
(*   - A text that the code parses character by character (a raw response,*)
(*     a receivedStatus header value) is a sequence of one-character       *)
(*     strings.                                                            *)
(*   - A number is a record [nan, n]: Number() can yield NaN.              *)
(***************************************************************************)
EXTENDS Integers, Sequences, FiniteSets, TLC

VARIABLES
    proxy,      \* the FetchProxy object the caller holds: <<>> or <<[proxyEndpoint]>>
    lastNew,    \* the last `new FetchProxy(arg)`: <<>> or <<[arg, threw]>>
    pc,         \* position of the fetch call: "idle", "awaiting", "done"
    call,       \* the fetch call in progress: <<>> or <<[this, endpoint, options]>>
    transport,  \* the transport calls issued by the fetch call in progress
    settled,    \* how the transport promise settled: <<>> or <<[kind, ...]>>
    outcome,    \* how the fetch promise settled: <<>> or <<[kind, ...]>>
    raw,        \* the text handed to parseRawHttpResponse
    ppc,        \* position of the parse: "start", "done"
    parsed,     \* what parseRawHttpResponse produced: <<>> or <<[kind, ...]>>
    op,         \* the promise given to withTimeout: <<>> (pending) or <<[kind, value]>>
    timer,      \* the timer of sleep(timeout): [state, due]
    now,        \* the time, in milliseconds
    jobs,       \* the queue of promise jobs (microtasks)
    race,       \* the promise of Promise.race: <<>> (pending) or <<[kind, value]>>
    wres,       \* the promise of withTimeout: <<>> (pending) or <<[kind, value]>>
    log,        \* which of "op" and "timer" settled, in the order they did
    calls,      \* the concurrent fetch calls on one client, by call
    smIn,       \* the arguments of splitMessage
    smOut       \* what splitMessage produced: <<>> or <<[kind, ...]>>

proxyVars == <<proxy, lastNew, pc, call, transport, settled, outcome>>
parseVars == <<raw, ppc, parsed>>
timeoutVars == <<op, timer, now, jobs, race, wres, log>>
concVars == <<calls>>
splitVars == <<smIn, smOut>>
vars == <<proxyVars, parseVars, timeoutVars, concVars, splitVars>>

----------------------------------------------------------------------------
(* JavaScript values *)

FalseV == "false"

\* a JavaScript number
Num(k) == [nan |-> FALSE, n |-> k]
NaN == [nan |-> TRUE, n |-> 0]

\* options.key: the property when set, undefined otherwise
Get(o, k) == IF k \in DOMAIN o THEN <<o[k]>> ELSE <<>>

\* x || d : d replaces every falsy x (undefined, "", false)
LogicalOr(x, d) == IF x = <<>> \/ x = <<"">> \/ x = <<FalseV>> THEN d ELSE x

\* x ?? d : d replaces only an undefined (or null) x
NullishOr(x, d) == IF x = <<>> THEN d ELSE x

\* JSON.stringify of an object literal: members whose value is undefined are
\* left out, the others keep their order
RECURSIVE JSONstringify(_)
JSONstringify(obj) ==
    IF obj = <<>> THEN <<>>
    ELSE LET p == Head(obj)
             rest == JSONstringify(Tail(obj))
         IN IF p[2] = <<>> THEN rest ELSE << <<p[1], p[2][1]>> >> \o rest

\* the characters String.prototype.trim and Number() strip
CR == "\r"
LF == "\n"
WhiteSpace == {" ", CR, LF}
Digits == {"0", "1", "2", "3", "4", "5", "6", "7", "8", "9"}

DigitValue(c) ==
    CASE c = "0" -> 0 [] c = "1" -> 1 [] c = "2" -> 2 [] c = "3" -> 3
      [] c = "4" -> 4 [] c = "5" -> 5 [] c = "6" -> 6 [] c = "7" -> 7
      [] c = "8" -> 8 [] c = "9" -> 9

RECURSIVE TrimStart(_)
TrimStart(s) ==
    IF s # <<>> /\ Head(s) \in WhiteSpace THEN TrimStart(Tail(s)) ELSE s

RECURSIVE TrimEnd(_)
TrimEnd(s) ==
    IF s # <<>> /\ s[Len(s)] \in WhiteSpace
    THEN TrimEnd(SubSeq(s, 1, Len(s) - 1)) ELSE s

\* String.prototype.trim
Trim(s) == TrimEnd(TrimStart(s))

RECURSIVE Decimal(_)
Decimal(s) ==
    IF s = <<>> THEN 0
    ELSE 10 * Decimal(SubSeq(s, 1, Len(s) - 1)) + DigitValue(s[Len(s)])

\* Number(x) for x undefined (<<>>) or a string (<<s>>) over digits, letters,
\* punctuation and white space: undefined is NaN, a blank string is 0, a
\* string of decimal digits is its value, anything else is NaN
Number(x) ==
    IF x = <<>> THEN NaN
    ELSE LET t == Trim(x[1])
         IN IF t = <<>> THEN Num(0)
            ELSE IF \A i \in 1..Len(t) : t[i] \in Digits THEN Num(Decimal(t))
            ELSE NaN

----------------------------------------------------------------------------
(* Headers and JSON values of the relay reply *)

\* header names are case-insensitive: Headers stores and looks them up in
\* lower case
Lower(name) ==
    CASE name = "incomingHeaders" -> "incomingheaders"
      [] name = "receivedStatus" -> "receivedstatus"
      [] name = "X-A" -> "x-a"
      [] name = "X-B" -> "x-b"
      [] OTHER -> name

\* Headers.prototype.has / get on a header collection (a function from
\* lower-case names to values)
HeadersHas(h, name) == Lower(name) \in DOMAIN h
HeadersGet(h, name) == IF HeadersHas(h, name) THEN <<h[Lower(name)]>> ELSE <<>>

JSNull == [type |-> "null", members |-> <<>>]
JSObject(m) == [type |-> "object", members |-> m]
JSOther(t) == [type |-> t, members |-> <<>>]

\* JSON.parse on the texts a relay reply carries in incomingHeaders
JSONparse(text) ==
    CASE text = "{\"X-A\":\"1\",\"X-B\":\"2\"}" ->
            [threw |-> <<>>, value |-> JSObject(<< <<"X-A", "1">>, <<"X-B", "2">> >>)]
      [] text = "{}" -> [threw |-> <<>>, value |-> JSObject(<<>>)]
      [] text = "null" -> [threw |-> <<>>, value |-> JSNull]
      [] text = "5" -> [threw |-> <<>>, value |-> JSOther("number")]
      [] text = "\"x\"" -> [threw |-> <<>>, value |-> JSOther("string")]
      [] OTHER -> [threw |-> <<"SyntaxError">>, value |-> JSNull]

\* new Headers(init): a record of strings becomes a header collection with
\* lower-case names; a number or a string is no HeadersInit (TypeError)
NewHeaders(init) ==
    IF init.type = "object"
    THEN [threw |-> <<>>,
          headers |-> [n \in {Lower(init.members[i][1]) : i \in 1..Len(init.members)} |->
                         LET i == CHOOSE j \in 1..Len(init.members) :
                                      Lower(init.members[j][1]) = n
                         IN init.members[i][2]]]
    ELSE [threw |-> <<"TypeError">>, headers |-> <<>>]

----------------------------------------------------------------------------
(* FetchProxy *)

\* new FetchProxy(proxyEndpoint): the object, or the error thrown
FetchProxyNoCheck(proxyEndpoint) ==
    [threw |-> <<>>, this |-> <<[proxyEndpoint |-> proxyEndpoint]>>]

FetchProxyNew(proxyEndpoint) ==
    IF Len(proxyEndpoint) = 0
    THEN [threw |-> <<"Proxy endpoint must not be a blank string">>, this |-> <<>>]
    ELSE [threw |-> <<>>, this |-> <<[proxyEndpoint |-> proxyEndpoint]>>]

\* typeof endpoint == "string" ? endpoint : endpoint.toString()
EndpointString(endpoint) ==
    IF endpoint.type = "string" THEN endpoint.value ELSE endpoint.href

\* the redirect policy of the local transport call
LocalRedirectOfCaller(options) == NullishOr(Get(options, "redirect"), <<"manual">>)

LocalRedirect(options) == <<"manual">>

\* the object handed to JSON.stringify for the oproxy-options header
OproxyOptions(options) ==
    << <<"method", NullishOr(Get(options, "method"), <<"GET">>)>>,
       <<"mode", NullishOr(Get(options, "mode"), <<>>)>>,
       <<"credentials", NullishOr(Get(options, "credentials"), <<>>)>>,
       <<"redirect", NullishOr(Get(options, "redirect"), <<>>)>>,
       <<"referrer", NullishOr(Get(options, "referrer"), <<>>)>>,
       <<"referrerPolicy", NullishOr(Get(options, "referrerPolicy"), <<>>)>>,
       <<"integrity", NullishOr(Get(options, "integrity"), <<>>)>>,
       <<"keepalive", NullishOr(Get(options, "keepalive"), <<>>)>> >>

\* options.headers == null ? "{}" : JSON.stringify(options.headers)
EnvelopeHeaders(options) ==
    IF Get(options, "headers") = <<>> THEN JSONstringify(<<>>)
    ELSE JSONstringify(options.headers)

\* configuredOptions: the RequestInit of the local transport call
ConfiguredOptions(endpoint, options) ==
    [method |-> NullishOr(Get(options, "method"), <<"GET">>),
     body |-> NullishOr(Get(options, "body"), <<>>),
     mode |-> NullishOr(Get(options, "mode"), <<>>),
     keepalive |-> NullishOr(Get(options, "keepalive"), <<>>),
     signal |-> NullishOr(Get(options, "signal"), <<>>),
     credentials |-> NullishOr(Get(options, "credentials"), <<>>),
     redirect |-> LocalRedirect(options),
     headers |-> ("endpoint" :> <<EndpointString(endpoint)>>)
                 @@ ("oproxy-options" :> JSONstringify(OproxyOptions(options)))
                 @@ ("headers" :> EnvelopeHeaders(options))]

\* receivedHeaders: the decoded incomingHeaders header, null without it
ReceivedHeadersFallback(res) ==
    IF HeadersHas(res.headers, "incomingHeaders")
    THEN [threw |-> <<>>,
          value |-> JSONparse(HeadersGet(res.headers, "incomingHeaders")[1]).value]
    ELSE [threw |-> <<>>, value |-> JSNull]

ReceivedHeaders(res) ==
    IF HeadersHas(res.headers, "incomingHeaders")
    THEN JSONparse(NullishOr(HeadersGet(res.headers, "incomingHeaders"), <<"">>)[1])
    ELSE [threw |-> <<>>, value |-> JSNull]

\* receivedStatus: the decoded receivedStatus header, res.status without it
ReceivedStatusOfTransport(res) == Num(res.status)

ReceivedStatus(res) ==
    IF HeadersHas(res.headers, "receivedStatus")
    THEN Number(HeadersGet(res.headers, "receivedStatus"))
    ELSE Num(res.status)

\* the headers getter defined on the response only if receivedHeaders != null
HeadersGetterAlways(receivedHeaders) == <<receivedHeaders>>

HeadersGetter(receivedHeaders) ==
    IF receivedHeaders # JSNull THEN <<receivedHeaders>> ELSE <<>>

\* the returned object: the physical response res with the properties
\* status, proxyHeaders and (conditionally) headers redefined on it
ProxyResponse(res, receivedStatus, receivedHeaders) ==
    [res |-> res,
     statusGetter |-> receivedStatus,
     proxyHeadersGetter |-> res.headers,
     headersGetter |-> HeadersGetter(receivedHeaders)]

\* reading response.status, response.proxyHeaders and response.headers
ReadStatus(r) == r.statusGetter
ReadProxyHeaders(r) == r.proxyHeadersGetter
ReadHeaders(r) ==
    IF r.headersGetter = <<>> THEN [threw |-> <<>>, headers |-> r.res.headers]
    ELSE NewHeaders(r.headersGetter[1])

----------------------------------------------------------------------------
(* Inputs of the tunnelling client *)

RelayEndpoints == {"", "https://relay.example/tunnel"}

TargetEndpoints ==
    {[type |-> "string", value |-> "https://target.example/a", href |-> ""],
     [type |-> "URL", value |-> "", href |-> "https://target.example/b"]}

OptionKeys ==
    {"method", "body", "mode", "keepalive", "signal", "credentials", "redirect",
     "referrer", "referrerPolicy", "integrity", "headers"}

\* the keys of the oproxy-options object other than method
EnvelopeKeys ==
    {"mode", "credentials", "redirect", "referrer", "referrerPolicy", "integrity",
     "keepalive"}

\* two sample values for each request option
OptionValue(k, alt) ==
    CASE k = "method" -> IF alt = 1 THEN "POST" ELSE "DELETE"
      [] k = "body" -> IF alt = 1 THEN "payload" ELSE ""
      [] k = "mode" -> IF alt = 1 THEN "cors" ELSE "no-cors"
      [] k = "keepalive" -> IF alt = 1 THEN FalseV ELSE "true"
      [] k = "signal" -> "AbortSignal"
      [] k = "credentials" -> IF alt = 1 THEN "include" ELSE "omit"
      [] k = "redirect" -> IF alt = 1 THEN "follow" ELSE "error"
      [] k = "referrer" -> IF alt = 1 THEN "" ELSE "about:client"
      [] k = "referrerPolicy" -> IF alt = 1 THEN "no-referrer" ELSE "origin"
      [] k = "integrity" -> IF alt = 1 THEN "sha256-abc" ELSE ""
      [] k = "headers" -> IF alt = 1 THEN << <<"X-A", <<"1">> >> >> ELSE <<>>

\* the RequestInit in which exactly the options of S are set
Options(S, alt) == [k \in S |-> OptionValue(k, alt)]

\* every combination of set and unset options
AllOptions == {Options(S, 1) : S \in SUBSET OptionKeys}

SomeOptions ==
    {Options(S, alt) :
        S \in {{}, {"redirect"}, {"method", "signal", "headers"}, OptionKeys},
        alt \in 1..2}

IncomingHeadersTexts ==
    {"{\"X-A\":\"1\",\"X-B\":\"2\"}", "{}", "null", "5", "\"x\"", "not json", ""}

ReceivedStatusTexts == {<<"4", "0", "4">>, <<"a", "b", "c">>, <<>>}

\* the header collection of a physical relay reply: a header of the relay
\* itself and, optionally, the two side-channel headers
RelayHeaders(ih, rs) ==
    [n \in {"x-relay"} \cup (IF ih # <<>> THEN {"incomingheaders"} ELSE {})
                       \cup (IF rs # <<>> THEN {"receivedstatus"} ELSE {}) |->
        CASE n = "x-relay" -> "hit"
          [] n = "incomingheaders" -> ih[1]
          [] n = "receivedstatus" -> rs[1]]

PhysicalStatuses == {200, 502}

AllReplies ==
    {[status |-> s, headers |-> RelayHeaders(ih, rs)] :
        s \in PhysicalStatuses,
        ih \in {<<>>} \cup {<<t>> : t \in IncomingHeadersTexts},
        rs \in {<<>>} \cup {<<t>> : t \in ReceivedStatusTexts}}

SomeReplies ==
    {[status |-> 200, headers |-> RelayHeaders(<<>>, <<>>)],
     [status |-> 502,
      headers |-> RelayHeaders(<<"{\"X-A\":\"1\",\"X-B\":\"2\"}">>, <<<<"4", "0", "4">>>>)]}

TransportErrors == {"TypeError: fetch failed", "AbortError"}

----------------------------------------------------------------------------
(* Operations of the tunnelling client *)

\* p = new FetchProxy(proxyEndpoint): p keeps its value when the constructor
\* throws
Construct(proxyEndpoint) ==
    /\ pc = "idle"
    /\ LET r == FetchProxyNew(proxyEndpoint)
       IN /\ proxy' = IF r.threw = <<>> THEN r.this ELSE proxy
          /\ lastNew' = <<[arg |-> proxyEndpoint, threw |-> r.threw]>>
    /\ UNCHANGED <<pc, call, transport, settled, outcome, parseVars, timeoutVars, concVars, splitVars>>

\* p.fetch(endpoint, options) up to the await: the envelope is built and the
\* transport call issued
Fetch(endpoint, options) ==
    /\ pc = "idle"
    /\ proxy # <<>>
    /\ call' = <<[this |-> proxy[1], endpoint |-> endpoint, options |-> options]>>
    /\ transport' = Append(transport,
                           [url |-> proxy[1].proxyEndpoint,
                            init |-> ConfiguredOptions(endpoint, options)])
    /\ pc' = "awaiting"
    /\ UNCHANGED <<proxy, lastNew, settled, outcome, parseVars, timeoutVars, concVars, splitVars>>

\* the transport promise resolves with the physical reply res: the rest of
\* fetch runs
FetchResolve(res) ==
    /\ pc = "awaiting"
    /\ settled' = <<[kind |-> "resolved", res |-> <<res>>, error |-> <<>>]>>
    /\ LET receivedHeaders == ReceivedHeaders(res)
           receivedStatus == ReceivedStatus(res)
       IN outcome' =
            IF receivedHeaders.threw # <<>>
            THEN <<[kind |-> "rejected", error |-> receivedHeaders.threw,
                    response |-> <<>>]>>
            ELSE <<[kind |-> "returned", error |-> <<>>,
                    response |-> <<ProxyResponse(res, receivedStatus,
                                                 receivedHeaders.value)>>]>>
    /\ pc' = "done"
    /\ UNCHANGED <<proxy, lastNew, call, transport, parseVars, timeoutVars, concVars, splitVars>>

\* a variant of FetchReject that issues the transport call once more
FetchRejectRetry(err) ==
    /\ pc = "awaiting"
    /\ err = "AbortError" => transport[1].init.signal # <<>>
    /\ IF Len(transport) < 2
       THEN /\ transport' = Append(transport, transport[1])
            /\ UNCHANGED <<pc, settled, outcome>>
       ELSE /\ settled' = <<[kind |-> "rejected", res |-> <<>>, error |-> <<err>>]>>
            /\ outcome' = <<[kind |-> "rejected", error |-> <<err>>, response |-> <<>>]>>
            /\ pc' = "done"
            /\ UNCHANGED transport
    /\ UNCHANGED <<proxy, lastNew, call, parseVars, timeoutVars, concVars, splitVars>>

\* the transport promise rejects (a network error, or an abort through the
\* forwarded signal): the await throws out of fetch
FetchReject(err) ==
    /\ pc = "awaiting"
    /\ err = "AbortError" => transport[1].init.signal # <<>>
    /\ settled' = <<[kind |-> "rejected", res |-> <<>>, error |-> <<err>>]>>
    /\ outcome' = <<[kind |-> "rejected", error |-> <<err>>, response |-> <<>>]>>
    /\ pc' = "done"
    /\ UNCHANGED <<proxy, lastNew, call, transport, parseVars, timeoutVars, concVars, splitVars>>

\* the caller has the result; the next call starts afresh
Return ==
    /\ pc = "done"
    /\ pc' = "idle"
    /\ call' = <<>>
    /\ transport' = <<>>
    /\ settled' = <<>>
    /\ outcome' = <<>>
    /\ UNCHANGED <<proxy, lastNew, parseVars, timeoutVars, concVars, splitVars>>

\* the parts of the state a specification does not use stay as they start
ProxyUnused ==
    /\ proxy = <<>>
    /\ lastNew = <<>>
    /\ pc = "idle"
    /\ call = <<>>
    /\ transport = <<>>
    /\ settled = <<>>
    /\ outcome = <<>>

ParseUnused ==
    /\ raw = <<>>
    /\ ppc = "start"
    /\ parsed = <<>>

TimeoutUnused ==
    /\ op = <<>>
    /\ timer = [state |-> "none", due |-> 0]
    /\ now = 0
    /\ jobs = <<>>
    /\ race = <<>>
    /\ wres = <<>>
    /\ log = <<>>

ConcUnused == calls = <<>>

SplitUnused ==
    /\ smIn = <<>>
    /\ smOut = <<>>

InitProxy ==
    /\ proxy = <<>>
    /\ lastNew = <<>>
    /\ pc = "idle"
    /\ call = <<>>
    /\ transport = <<>>
    /\ settled = <<>>
    /\ outcome = <<>>
    /\ ParseUnused
    /\ TimeoutUnused
    /\ ConcUnused
    /\ SplitUnused

Init == InitProxy

Next ==
    \/ \E ep \in RelayEndpoints : Construct(ep)
    \/ \E e \in TargetEndpoints, o \in SomeOptions : Fetch(e, o)
    \/ \E res \in AllReplies : FetchResolve(res)
    \/ \E err \in TransportErrors : FetchReject(err)
    \/ Return

Spec == Init /\ [][Next]_vars

\* the same operations over every combination of set and unset options
NextOptions ==
    \/ \E ep \in RelayEndpoints : Construct(ep)
    \/ \E e \in TargetEndpoints, o \in AllOptions : Fetch(e, o)
    \/ \E res \in SomeReplies : FetchResolve(res)
    \/ \E err \in TransportErrors : FetchReject(err)
    \/ Return

SpecOptions == Init /\ [][NextOptions]_vars

----------------------------------------------------------------------------
(* String operations used by parseRawHttpResponse *)

Char(s, i) == IF i >= 1 /\ i <= Len(s) THEN s[i] ELSE ""

\* the length of the match of a separator at position q of s, 0 for no match:
\*   "blank"   the regular expression /\r?\n\r?\n/
\*   "newline" the regular expression /\r?\n/
\*   "space"   the string " "
MatchLen(kind, s, q) ==
    LET a == IF Char(s, q) = CR THEN q + 1 ELSE q
        b == IF Char(s, a + 1) = CR THEN a + 2 ELSE a + 1
    IN CASE kind = "blank" ->
                IF Char(s, a) = LF /\ Char(s, b) = LF THEN b + 1 - q ELSE 0
         [] kind = "newline" -> IF Char(s, a) = LF THEN a + 1 - q ELSE 0
         [] kind = "space" -> IF Char(s, q) = " " THEN 1 ELSE 0

\* String.prototype.split: p is where the current piece starts, q where the
\* separator is looked for next
RECURSIVE SplitFrom(_, _, _, _, _)
SplitFrom(kind, s, p, q, acc) ==
    IF q > Len(s) THEN Append(acc, SubSeq(s, p, Len(s)))
    ELSE LET m == MatchLen(kind, s, q)
         IN IF m = 0 THEN SplitFrom(kind, s, p, q + 1, acc)
            ELSE SplitFrom(kind, s, q + m, q + m, Append(acc, SubSeq(s, p, q - 1)))

Split(kind, s) == SplitFrom(kind, s, 1, 1, <<>>)

\* Array.prototype.join
RECURSIVE Join(_, _)
Join(parts, sep) ==
    IF parts = <<>> THEN <<>>
    ELSE IF Len(parts) = 1 THEN parts[1]
    ELSE parts[1] \o sep \o Join(Tail(parts), sep)

\* String.prototype.indexOf(":"), as a position from 1, 0 when there is none
IndexOfColon(line) ==
    IF \E i \in 1..Len(line) : line[i] = ":"
    THEN CHOOSE i \in 1..Len(line) :
            line[i] = ":" /\ \A j \in 1..(i - 1) : line[j] # ":"
    ELSE 0

UpperLetters ==
    <<"A", "B", "C", "D", "E", "F", "G", "H", "I", "J", "K", "L", "M", "N", "O", "P",
      "Q", "R", "S", "T", "U", "V", "W", "X", "Y", "Z">>

LowerLetters ==
    <<"a", "b", "c", "d", "e", "f", "g", "h", "i", "j", "k", "l", "m", "n", "o", "p",
      "q", "r", "s", "t", "u", "v", "w", "x", "y", "z">>

\* the characters of an HTTP token (a header name), among those of the inputs
TokenChars ==
    Digits \cup {UpperLetters[i] : i \in 1..26} \cup {LowerLetters[i] : i \in 1..26}
           \cup {"-", ".", "_"}

\* the lower-case form of a character (header names are stored in lower case)
LowerChar(c) ==
    IF \E i \in 1..26 : UpperLetters[i] = c
    THEN LowerLetters[CHOOSE i \in 1..26 : UpperLetters[i] = c]
    ELSE c

\* Headers.prototype.append(name, value) on an ordered list of entries: a name
\* that is no token, or a value holding a CR or LF, is a TypeError
HeadersAppend(h, name, value) ==
    IF h.threw # <<>> THEN h
    ELSE IF name = <<>> \/ \E i \in 1..Len(name) : name[i] \notin TokenChars
    THEN [threw |-> <<"TypeError">>, entries |-> h.entries]
    ELSE IF \E i \in 1..Len(value) : value[i] \in {CR, LF}
    THEN [threw |-> <<"TypeError">>, entries |-> h.entries]
    ELSE [threw |-> <<>>,
          entries |-> Append(h.entries,
                             <<[i \in 1..Len(name) |-> LowerChar(name[i])], value>>)]

\* the loop over the header lines: a line with a colon appends one value
RECURSIVE HeaderLines(_, _)
HeaderLines(lines, h) ==
    IF lines = <<>> THEN h
    ELSE LET line == Head(lines)
             idx == IndexOfColon(line)
         IN IF idx # 0
            THEN HeaderLines(Tail(lines),
                             HeadersAppend(h, Trim(SubSeq(line, 1, idx - 1)),
                                           Trim(SubSeq(line, idx + 1, Len(line)))))
            ELSE HeaderLines(Tail(lines), h)

\* the conversion of a number to the unsigned short of ResponseInit.status
ToUnsignedShort(x) == IF x.nan THEN 0 ELSE x.n % 65536

NullBodyStatuses == {101, 103, 204, 205, 304}

\* new Response(body, {status, statusText, headers}) with a string body
NewResponse(body, status, statusText, headers) ==
    LET st == ToUnsignedShort(status)
    IN IF st < 200 \/ st > 599
       THEN [kind |-> "threw", error |-> <<"RangeError">>, response |-> <<>>]
       ELSE IF \E i \in 1..Len(statusText) : statusText[i] \in {CR, LF}
       THEN [kind |-> "threw", error |-> <<"TypeError">>, response |-> <<>>]
       ELSE IF st \in NullBodyStatuses
       THEN [kind |-> "threw", error |-> <<"TypeError">>, response |-> <<>>]
       ELSE [kind |-> "returned", error |-> <<>>,
             response |-> <<[status |-> Num(st), statusText |-> statusText,
                             headers |-> headers, body |-> body]>>]

\* parseRawHttpResponse(raw)
ParseRawHttpResponse(text) ==
    LET parts == Split("blank", text)
        headerPart == Head(parts)
        bodyParts == Tail(parts)
        body == Join(bodyParts, <<LF, LF>>)
        allLines == Split("newline", headerPart)
        statusLine == IF allLines = <<>> THEN <<>> ELSE <<Head(allLines)>>
        lines == IF allLines = <<>> THEN <<>> ELSE Tail(allLines)
    IN IF statusLine = <<>>
       THEN [kind |-> "threw",
             error |-> <<"Curl HTTP Response Syntax Error: No status line!">>,
             response |-> <<>>]
       ELSE LET tokens == Split("space", statusLine[1])
                statusCode == IF Len(tokens) >= 2 THEN <<tokens[2]>> ELSE <<>>
                statusTextParts == SubSeq(tokens, 3, Len(tokens))
                status == Number(statusCode)
                statusText == Join(statusTextParts, <<" ">>)
                headers == HeaderLines(lines, [threw |-> <<>>, entries |-> <<>>])
            IN IF headers.threw # <<>>
               THEN [kind |-> "threw", error |-> headers.threw, response |-> <<>>]
               ELSE NewResponse(body, status, statusText, headers.entries)

----------------------------------------------------------------------------
(* Inputs and operation of the parser *)

\* the longest raw text, in pieces
MaxSegs == 4

Pieces ==
    {<<"H", "T", "T", "P", "/", "1", ".", "1">>, <<" ">>, <<"2", "0", "0">>,
     <<"O", "K">>, <<CR, LF>>, <<LF>>, <<"X", "-", "A", ":", "1">>}

RECURSIVE Flatten(_)
Flatten(ps) == IF ps = <<>> THEN <<>> ELSE Head(ps) \o Flatten(Tail(ps))

\* hand-written raw texts, longer than MaxSegs pieces
\* the text of the worked example: two X-A lines and the body "body"
TextExample ==
    <<"H", "T", "T", "P", "/", "1", ".", "1", " ", "2", "0", "0", " ", "O",
      "K", CR, LF, "X", "-", "A", ":", " ", "1", CR, LF, "X", "-", "A", ":",
      " ", "2", CR, LF, CR, LF, "b", "o", "d", "y">>

\* a 204 response, which has no body
TextNoContent ==
    <<"H", "T", "T", "P", "/", "1", ".", "1", " ", "2", "0", "4", " ", "N",
      "o", " ", "C", "o", "n", "t", "e", "n", "t", CR, LF, CR, LF>>

\* a status text of two words, bare LF line endings
TextNotFound ==
    <<"H", "T", "T", "P", "/", "1", ".", "1", " ", "4", "0", "4", " ", "N",
      "o", "t", " ", "F", "o", "u", "n", "d", LF, "X", "-", "A", ":", " ", "1",
      LF, LF, "b", "o", "d", "y">>

\* a header line without a colon between two headers
TextNoColonLine ==
    <<"H", "T", "T", "P", "/", "1", ".", "1", " ", "2", "0", "0", " ", "O",
      "K", CR, LF, "X", "-", "A", ":", " ", "1", CR, LF, "m", "a", "l", "f",
      "o", "r", "m", "e", "d", "-", "l", "i", "n", "e", CR, LF, "X", "-", "B",
      ":", "2", CR, LF, CR, LF, "b", "o", "d", "y">>

\* a header line with a colon and nothing before it
TextEmptyName ==
    <<"H", "T", "T", "P", "/", "1", ".", "1", " ", "2", "0", "0", " ", "O",
      "K", CR, LF, ":", " ", "x", CR, LF, "X", "-", "A", ":", " ", "1", CR, LF,
      CR, LF, "b", "o", "d", "y">>

\* a header value that holds a colon
TextColonInValue ==
    <<"H", "T", "T", "P", "/", "1", ".", "1", " ", "2", "0", "0", " ", "O",
      "K", CR, LF, "X", "-", "A", ":", " ", "a", ":", "b", CR, LF, CR, LF>>

\* a body that holds a blank line, CRLF line endings
TextBodyBlankCRLF ==
    <<"H", "T", "T", "P", "/", "1", ".", "1", " ", "2", "0", "0", " ", "O",
      "K", CR, LF, CR, LF, "a", CR, LF, CR, LF, "b">>

\* a body that holds a blank line, bare LF line endings
TextBodyBlankLF ==
    <<"H", "T", "T", "P", "/", "1", ".", "1", " ", "2", "0", "0", " ", "O",
      "K", LF, LF, "a", LF, LF, "b">>

SampleTexts ==
    {TextExample,
     TextNoContent,
     TextNotFound,
     TextNoColonLine,
     TextEmptyName,
     TextColonInValue,
     TextBodyBlankCRLF,
     TextBodyBlankLF}

RawTexts ==
    {Flatten(ps) : ps \in UNION {[1..n -> Pieces] : n \in 0..MaxSegs}} \cup SampleTexts

\* a caller (curl) hands raw to the parser and gets a response or an error
Parse ==
    /\ ppc = "start"
    /\ parsed' = <<ParseRawHttpResponse(raw)>>
    /\ ppc' = "done"
    /\ UNCHANGED <<raw, proxyVars, timeoutVars, concVars, splitVars>>

InitParse ==
    /\ proxy = <<>>
    /\ lastNew = <<>>
    /\ pc = "idle"
    /\ call = <<>>
    /\ transport = <<>>
    /\ settled = <<>>
    /\ outcome = <<>>
    /\ raw \in RawTexts
    /\ ppc = "start"
    /\ parsed = <<>>
    /\ TimeoutUnused
    /\ ConcUnused
    /\ SplitUnused

NextParse == Parse

SpecParse == InitParse /\ [][NextParse]_vars

----------------------------------------------------------------------------
(* Properties of the tunnelling client *)

\* the fetch call returned a response / the transport resolved with a reply
Returned == outcome # <<>> /\ outcome[1].kind = "returned"
Rejected == outcome # <<>> /\ outcome[1].kind = "rejected"
Resolved == settled # <<>> /\ settled[1].kind = "resolved"
TheResponse == outcome[1].response[1]
TheReply == settled[1].res[1]

\* C1: the status read from the returned response is the number decoded from
\* the reply's receivedStatus header when the reply has that header, whatever
\* the physical status is, and the physical status when it has not.
C1_StatusFromSideChannel ==
    Returned =>
        ReadStatus(TheResponse) =
            IF "receivedstatus" \in DOMAIN TheReply.headers
            THEN Number(<<TheReply.headers["receivedstatus"]>>)
            ELSE Num(TheReply.status)

C1_Witness ==
    /\ Returned
    /\ "receivedstatus" \in DOMAIN TheReply.headers
    /\ TheReply.headers["receivedstatus"] = <<"4", "0", "4">>
    /\ TheReply.status = 502
    /\ ReadStatus(TheResponse) = Num(404)

\* C2: whenever the reply carries an incomingHeaders header, whatever JSON
\* value it holds, the headers read from the returned response are the decoded
\* value, and proxyHeaders is the reply's own header collection.
C2_HeadersAreDecodedValue ==
    (Returned /\ "incomingheaders" \in DOMAIN TheReply.headers) =>
        LET decoded == JSONparse(TheReply.headers["incomingheaders"]).value
        IN /\ NewHeaders(decoded).threw = <<>>
           /\ ReadHeaders(TheResponse) = NewHeaders(decoded)
           /\ ReadProxyHeaders(TheResponse) = TheReply.headers

\* C3: when the reply carries no incomingHeaders header, the headers read from
\* the returned response are the reply's own headers, and so are proxyHeaders.
C3_HeadersArePhysical ==
    (Returned /\ "incomingheaders" \notin DOMAIN TheReply.headers) =>
        /\ ReadHeaders(TheResponse) = [threw |-> <<>>, headers |-> TheReply.headers]
        /\ ReadProxyHeaders(TheResponse) = TheReply.headers

C3_Witness ==
    /\ Returned
    /\ DOMAIN TheReply.headers = {"x-relay", "receivedstatus"}
    /\ ReadHeaders(TheResponse).headers = TheReply.headers

\* C4: every transport call goes to the endpoint the client was constructed
\* with, with redirect "manual"; the redirect value of the caller is in the
\* serialized oproxy-options header and in no other place of the call.
C4_RedirectManual ==
    \A i \in 1..Len(transport) :
        LET t == transport[i]
            o == call[1].options
            env == t.init.headers["oproxy-options"]
        IN /\ t.url = call[1].this.proxyEndpoint
           /\ t.init.redirect = <<"manual">>
           /\ "redirect" \in DOMAIN o =>
                /\ \E j \in 1..Len(env) : env[j] = <<"redirect", o.redirect>>
                /\ \A f \in {"method", "body", "mode", "keepalive", "signal",
                            "credentials", "redirect"} : t.init[f] # <<o.redirect>>
                /\ t.init.headers["endpoint"] # <<o.redirect>>

C4_Witness ==
    /\ Len(transport) = 1
    /\ "redirect" \in DOMAIN call[1].options
    /\ call[1].options.redirect = "follow"
    /\ transport[1].init.redirect = <<"manual">>

\* C5: the oproxy-options object holds exactly the options the caller set,
\* with the values the caller gave, and method, which is "GET" when unset and
\* the same in the transport call and in the envelope; the headers field of
\* the envelope is "{}" (no members) when the caller gave no headers.
C5_EnvelopeOmitsUnset ==
    \A i \in 1..Len(transport) :
        LET t == transport[i]
            o == call[1].options
            env == t.init.headers["oproxy-options"]
            method == IF "method" \in DOMAIN o THEN o.method ELSE "GET"
        IN /\ {env[j][1] : j \in 1..Len(env)}
                = {"method"} \cup (EnvelopeKeys \cap DOMAIN o)
           /\ \A j \in 1..Len(env) :
                env[j][2] = IF env[j][1] = "method" THEN method ELSE o[env[j][1]]
           /\ t.init.method = <<method>>
           /\ "headers" \notin DOMAIN o => t.init.headers["headers"] = <<>>

C5_Witness ==
    /\ Len(transport) = 1
    /\ DOMAIN call[1].options = {"keepalive", "referrer", "body"}
    /\ transport[1].init.headers["oproxy-options"]
         = << <<"method", "GET">>, <<"referrer", "">>, <<"keepalive", FalseV>> >>

\* C6: a construction with the empty string throws and leaves no object, a
\* construction with any other string succeeds; no client object has an
\* empty endpoint and no transport call goes to one.
C6_BlankEndpointThrows ==
    /\ lastNew # <<>> =>
         IF lastNew[1].arg = ""
         THEN lastNew[1].threw # <<>>
         ELSE lastNew[1].threw = <<>> /\ proxy = <<[proxyEndpoint |-> lastNew[1].arg]>>
    /\ proxy # <<>> => proxy[1].proxyEndpoint # ""
    /\ \A i \in 1..Len(transport) : transport[i].url # ""

C6_Witness ==
    /\ lastNew # <<>>
    /\ lastNew[1].arg = ""
    /\ lastNew[1].threw # <<>>
    /\ proxy = <<>>

\* C7: when the transport call fails, fetch rejects with that same error and
\* returns no response; a fetch call makes exactly one transport call.
C7_TransportErrorPropagates ==
    /\ (settled # <<>> /\ settled[1].kind = "rejected") =>
         outcome = <<[kind |-> "rejected", error |-> settled[1].error,
                      response |-> <<>>]>>
    /\ Len(transport) = IF pc = "idle" THEN 0 ELSE 1

C7_Witness ==
    /\ pc = "done"
    /\ settled[1].kind = "rejected"
    /\ settled[1].error = <<"AbortError">>
    /\ Rejected
    /\ Len(transport) = 1

\* C8: when the reply carries an incomingHeaders header that is not valid
\* JSON, fetch rejects with the parse error and returns no response.
C8_MalformedHeadersReject ==
    (/\ Resolved
     /\ "incomingheaders" \in DOMAIN TheReply.headers
     /\ TheReply.headers["incomingheaders"] \in {"not json", ""}) =>
        outcome = <<[kind |-> "rejected", error |-> <<"SyntaxError">>,
                     response |-> <<>>]>>

C8_Witness ==
    /\ Resolved
    /\ "incomingheaders" \in DOMAIN TheReply.headers
    /\ TheReply.headers["incomingheaders"] = "not json"
    /\ Rejected
    /\ outcome[1].error = <<"SyntaxError">>

\* C9: every response returned by fetch has a status that is a positive
\* integer; a receivedStatus that is no number never reaches the caller as the
\* status of a returned response.
C9_StatusPositiveInteger ==
    Returned =>
        /\ ~ReadStatus(TheResponse).nan
        /\ ReadStatus(TheResponse).n > 0

\* the part of C9 about the parser: a response it returns has a status that
\* the Response constructor accepted
ParserStatusInRange ==
    (parsed # <<>> /\ parsed[1].kind = "returned") =>
        /\ ~parsed[1].response[1].status.nan
        /\ parsed[1].response[1].status.n \in 200..599

\* C10: parsing a text with no status line (an empty header part, as in the
\* empty text) fails with the parser's syntax error "No status line".
C10_NoStatusLineSyntaxError ==
    (ppc = "done" /\ Head(Split("blank", raw)) = <<>>) =>
        parsed = <<[kind |-> "threw",
                    error |-> <<"Curl HTTP Response Syntax Error: No status line!">>,
                    response |-> <<>>]>>

----------------------------------------------------------------------------
(* Properties of the parser *)

ParseReturned == parsed # <<>> /\ parsed[1].kind = "returned"
ParsedResponse == parsed[1].response[1]

\* the lines of raw before its first blank-line boundary
HeaderPartLines == Split("newline", Head(Split("blank", raw)))

\* the tokens of the status line of raw
StatusTokens == Split("space", Head(HeaderPartLines))

\* the status line of raw reads "<version> <code> <text...>", code a number
StatusLineWellFormed ==
    /\ Len(StatusTokens) >= 2
    /\ StatusTokens[1] # <<>>
    /\ StatusTokens[2] # <<>>
    /\ \A i \in 1..Len(StatusTokens[2]) : StatusTokens[2][i] \in Digits

\* C11: for every raw text whose status line reads "<version> <code>
\* <text...>", the parser returns a response whose status is the number of the
\* second token and whose statusText is the remaining tokens joined by single
\* spaces; the worked example yields 200, "OK" and the body "body".
C11_StatusLineParsed ==
    (ppc = "done" /\ StatusLineWellFormed) =>
        /\ ParseReturned
        /\ ParsedResponse.status = Num(Decimal(StatusTokens[2]))
        /\ ParsedResponse.statusText
             = Join(SubSeq(StatusTokens, 3, Len(StatusTokens)), <<" ">>)
        /\ raw = TextExample =>
             /\ ParsedResponse.status = Num(200)
             /\ ParsedResponse.statusText = <<"O", "K">>
             /\ ParsedResponse.body = <<"b", "o", "d", "y">>

\* the part of C11 that the code satisfies: whenever the parser does return a
\* response for such a status line, status and statusText are as C11 says
StatusLineParsedWhenReturned ==
    (ParseReturned /\ StatusLineWellFormed) =>
        /\ ParsedResponse.status = Num(Decimal(StatusTokens[2]) % 65536)
        /\ ParsedResponse.statusText
             = Join(SubSeq(StatusTokens, 3, Len(StatusTokens)), <<" ">>)

\* the header lines of raw that contain a colon, in order
ColonLines ==
    SelectSeq(Tail(HeaderPartLines), LAMBDA l : \E i \in 1..Len(l) : l[i] = ":")

\* the entry a colon line stands for: the trimmed text before the first colon
\* (header names compare without case) and the trimmed text after it
EntryOf(l) ==
    LET i == CHOOSE k \in 1..Len(l) : l[k] = ":" /\ \A j \in 1..(k - 1) : l[j] # ":"
        name == Trim(SubSeq(l, 1, i - 1))
    IN <<[k \in 1..Len(name) |-> LowerChar(name[k])], Trim(SubSeq(l, i + 1, Len(l)))>>

\* the status line alone would be accepted by the Response constructor
StatusAccepted ==
    NewResponse(<<>>, Number(IF Len(StatusTokens) >= 2 THEN <<StatusTokens[2]>> ELSE <<>>),
                Join(SubSeq(StatusTokens, 3, Len(StatusTokens)), <<" ">>),
                <<>>).kind = "returned"

\* C15: the header collection holds one value for each line with a colon
\* between the status line and the first blank-line boundary, in the order of
\* the lines (same names append), and lines without a colon are skipped: the
\* parse is not aborted by a header line.
C15_HeaderLinesAppended ==
    (ppc = "done" /\ StatusAccepted) =>
        /\ ParseReturned
        /\ ParsedResponse.headers
             = [i \in 1..Len(ColonLines) |-> EntryOf(ColonLines[i])]

\* the part of C15 that the code satisfies: the headers of a returned response
\* are the entries of the colon lines, in order
HeaderLinesAppendedWhenReturned ==
    ParseReturned =>
        ParsedResponse.headers = [i \in 1..Len(ColonLines) |-> EntryOf(ColonLines[i])]

\* where the first blank-line boundary of raw ends, 0 when raw has none
FirstBoundaryEnd ==
    IF \E q \in 1..Len(raw) : MatchLen("blank", raw, q) > 0
    THEN LET q == CHOOSE k \in 1..Len(raw) :
                    /\ MatchLen("blank", raw, k) > 0
                    /\ \A j \in 1..(k - 1) : MatchLen("blank", raw, j) = 0
         IN q + MatchLen("blank", raw, q) - 1
    ELSE 0

\* C16: the body of the returned response is the text of raw after its first
\* blank-line boundary, character for character, also when that text holds
\* further blank lines.
C16_BodyVerbatim ==
    ParseReturned =>
        ParsedResponse.body =
            IF FirstBoundaryEnd = 0 THEN <<>>
            ELSE SubSeq(raw, FirstBoundaryEnd + 1, Len(raw))

----------------------------------------------------------------------------
(* withTimeout *)

\* the longest timeout given to withTimeout, and the latest time, in
\* milliseconds
MaxTimeout == 2
MaxTime == 3

\* the instance of PrivateTimeoutIndicator the timer branch resolves with; the
\* class is private to the module, so no other promise can carry one
TimeoutIndicator == "PrivateTimeoutIndicator"

TimeoutError == "Timeout reached when awaiting promise resolution!"

Fulfilled(v) == [kind |-> "fulfilled", value |-> v]
RejectedWith(e) == [kind |-> "rejected", value |-> e]

\* the ways the promise given to withTimeout can settle
OpSettlements == {Fulfilled("value"), RejectedWith("operation failed")}

\* sleep(timeout): setTimeout(resolve, ms) at the time now
Sleep(ms) == [state |-> "armed", due |-> now + ms]

\* Promise.race: the first promise to settle settles the race, later ones are
\* ignored
RaceSettle(cur, s) == IF cur = <<>> THEN <<s>> ELSE cur

\* a variant of AwaitRace without the instanceof test
AwaitRaceNoCheck(r) == r

\* the rest of withTimeout after `await Promise.race(promises)`: a rejection is
\* thrown on, the timeout indicator becomes the timeout error, any other value
\* is returned
AwaitRace(r) ==
    IF r.kind = "fulfilled" /\ r.value = TimeoutIndicator
    THEN RejectedWith(TimeoutError)
    ELSE r

\* withTimeout(promise, timeout) up to the await: the timer is set and the race
\* subscribes to both promises (a promise that has settled already gets its
\* reaction job at once)
WithTimeout(timeout) ==
    /\ timer.state = "none"
    /\ jobs = <<>>
    /\ timer' = Sleep(timeout)
    /\ jobs' = IF op # <<>> THEN <<"raceOp">> ELSE <<>>
    /\ UNCHANGED <<op, now, race, wres, log, proxyVars, parseVars, concVars, splitVars>>

\* the operation behind the promise settles, in a task of its own
OpSettle(s) ==
    /\ op = <<>>
    /\ jobs = <<>>
    /\ op' = <<s>>
    /\ log' = Append(log, "op")
    /\ jobs' = IF timer.state # "none" THEN <<"raceOp">> ELSE <<>>
    /\ UNCHANGED <<timer, now, race, wres, proxyVars, parseVars, concVars, splitVars>>

\* time passes between tasks
Tick ==
    /\ now < MaxTime
    /\ jobs = <<>>
    /\ now' = now + 1
    /\ UNCHANGED <<op, timer, jobs, race, wres, log, proxyVars, parseVars, concVars,
                   splitVars>>

\* the timer task runs, not before its delay has passed: the sleep promise is
\* resolved and its then-callback queued
TimerFire ==
    /\ timer.state = "armed"
    /\ now >= timer.due
    /\ jobs = <<>>
    /\ timer' = [timer EXCEPT !.state = "fired"]
    /\ log' = Append(log, "timer")
    /\ jobs' = <<"thenIndicator">>
    /\ UNCHANGED <<op, now, race, wres, proxyVars, parseVars, concVars, splitVars>>

\* the next promise job runs; tasks wait until the job queue is empty
RunJob ==
    /\ jobs # <<>>
    /\ LET j == Head(jobs)
           settledBy == IF j = "raceOp" THEN op[1] ELSE Fulfilled(TimeoutIndicator)
       IN CASE j = "thenIndicator" ->
                 /\ jobs' = Append(Tail(jobs), "raceTimer")
                 /\ UNCHANGED <<race, wres>>
            [] j \in {"raceOp", "raceTimer"} ->
                 /\ race' = RaceSettle(race, settledBy)
                 /\ jobs' = IF race = <<>> THEN Append(Tail(jobs), "continue")
                            ELSE Tail(jobs)
                 /\ UNCHANGED wres
            [] j = "continue" ->
                 /\ wres' = <<AwaitRace(race[1])>>
                 /\ jobs' = Tail(jobs)
                 /\ UNCHANGED race
    /\ UNCHANGED <<op, timer, now, log, proxyVars, parseVars, concVars, splitVars>>

InitTimeout ==
    /\ op \in {<<>>} \cup {<<s>> : s \in OpSettlements}
    /\ log = IF op = <<>> THEN <<>> ELSE <<"op">>
    /\ timer = [state |-> "none", due |-> 0]
    /\ now = 0
    /\ jobs = <<>>
    /\ race = <<>>
    /\ wres = <<>>
    /\ ProxyUnused
    /\ ParseUnused
    /\ ConcUnused
    /\ SplitUnused

NextTimeout ==
    \/ \E t \in 0..MaxTimeout : WithTimeout(t)
    \/ \E s \in OpSettlements : OpSettle(s)
    \/ Tick
    \/ TimerFire
    \/ RunJob

SpecTimeout == InitTimeout /\ [][NextTimeout]_vars

\* C12: withTimeout settles as whichever of the timer and the promise settled
\* first: with the timeout error when the timer did, with the value or the
\* rejection of the promise, and never the timeout error, when the promise
\* did; the promise itself is settled by its operation alone, also after the
\* timeout.
C12_FirstSettledWins ==
    /\ wres # <<>> =>
         /\ log # <<>>
         /\ log[1] = "timer" => wres[1] = RejectedWith(TimeoutError)
         /\ log[1] = "op" => wres[1] = op[1] /\ wres[1].value # TimeoutError
    /\ op # <<>> <=> \E i \in 1..Len(log) : log[i] = "op"

C12_Witness ==
    /\ wres = <<RejectedWith(TimeoutError)>>
    /\ log = <<"timer", "op">>
    /\ op = <<Fulfilled("value")>>

----------------------------------------------------------------------------
(* Concurrent fetch calls on one client *)

MaxCalls == 2

CallIds == 1..MaxCalls

\* the client all the calls share
ConcRelay == "https://relay.example/tunnel"

ConcOptions == {Options({}, 1), Options({"method", "signal", "headers"}, 1)}

ConcReplies ==
    SomeReplies \cup {[status |-> 200, headers |-> RelayHeaders(<<"not json">>, <<>>)]}

\* a call that has not started: no arguments, no envelope, no reply
NoCall ==
    [pc |-> "idle", endpoint |-> <<>>, options |-> <<>>, sent |-> <<>>,
     res |-> <<>>, outcome |-> <<>>]

\* call c of p.fetch(endpoint, options) up to the await: the envelope is a
\* local of the call, this.proxyEndpoint is only read
ConcFetchStoresEndpoint(c, endpoint, options) ==
    /\ calls[c].pc = "idle"
    /\ calls' = [calls EXCEPT ![c] =
                   [pc |-> "awaiting", endpoint |-> <<endpoint>>,
                    options |-> <<options>>,
                    sent |-> <<[url |-> proxy[1].proxyEndpoint,
                                init |-> ConfiguredOptions(endpoint, options)]>>,
                    res |-> <<>>, outcome |-> <<>>]]
    /\ proxy' = <<[proxyEndpoint |-> EndpointString(endpoint)]>>
    /\ UNCHANGED <<lastNew, pc, call, transport, settled, outcome, parseVars,
                   timeoutVars, splitVars>>

ConcFetch(c, endpoint, options) ==
    /\ calls[c].pc = "idle"
    /\ calls' = [calls EXCEPT ![c] =
                   [pc |-> "awaiting", endpoint |-> <<endpoint>>,
                    options |-> <<options>>,
                    sent |-> <<[url |-> proxy[1].proxyEndpoint,
                                init |-> ConfiguredOptions(endpoint, options)]>>,
                    res |-> <<>>, outcome |-> <<>>]]
    /\ UNCHANGED <<proxyVars, parseVars, timeoutVars, splitVars>>

\* the transport promise of call c resolves with res: the rest of that call
\* runs on its own locals res, receivedHeaders and receivedStatus
ConcResolve(c, res) ==
    /\ calls[c].pc = "awaiting"
    /\ LET receivedHeaders == ReceivedHeaders(res)
           receivedStatus == ReceivedStatus(res)
       IN calls' = [calls EXCEPT
            ![c].pc = "done",
            ![c].res = <<res>>,
            ![c].outcome =
               IF receivedHeaders.threw # <<>>
               THEN <<[kind |-> "rejected", error |-> receivedHeaders.threw,
                       response |-> <<>>]>>
               ELSE <<[kind |-> "returned", error |-> <<>>,
                       response |-> <<ProxyResponse(res, receivedStatus,
                                                    receivedHeaders.value)>>]>>]
    /\ UNCHANGED <<proxyVars, parseVars, timeoutVars, splitVars>>

\* the transport promise of call c rejects
ConcReject(c, err) ==
    /\ calls[c].pc = "awaiting"
    /\ err = "AbortError" => calls[c].sent[1].init.signal # <<>>
    /\ calls' = [calls EXCEPT
         ![c].pc = "done",
         ![c].outcome = <<[kind |-> "rejected", error |-> <<err>>,
                           response |-> <<>>]>>]
    /\ UNCHANGED <<proxyVars, parseVars, timeoutVars, splitVars>>

\* the caller of call c has its result; the next call starts afresh
ConcReturn(c) ==
    /\ calls[c].pc = "done"
    /\ calls' = [calls EXCEPT ![c] = NoCall]
    /\ UNCHANGED <<proxyVars, parseVars, timeoutVars, splitVars>>

InitConc ==
    /\ proxy = FetchProxyNew(ConcRelay).this
    /\ lastNew = <<>>
    /\ pc = "idle"
    /\ call = <<>>
    /\ transport = <<>>
    /\ settled = <<>>
    /\ outcome = <<>>
    /\ calls = [c \in CallIds |-> NoCall]
    /\ ParseUnused
    /\ TimeoutUnused
    /\ SplitUnused

NextConc ==
    \/ \E c \in CallIds, e \in TargetEndpoints, o \in ConcOptions : ConcFetch(c, e, o)
    \/ \E c \in CallIds, res \in ConcReplies : ConcResolve(c, res)
    \/ \E c \in CallIds, err \in TransportErrors : ConcReject(c, err)
    \/ \E c \in CallIds : ConcReturn(c)

SpecConc == InitConc /\ [][NextConc]_vars

\* C13: in every interleaving of the calls on one client, each call's
\* transport call goes to the client's relay endpoint with the envelope built
\* from that call's own arguments, each returned response's status, headers
\* and proxyHeaders come from that call's own relay reply, and the client's
\* proxyEndpoint stays what the constructor stored.
C13_CallsIndependent ==
    /\ proxy = <<[proxyEndpoint |-> ConcRelay]>>
    /\ \A c \in CallIds :
         /\ calls[c].pc # "idle" =>
              calls[c].sent = <<[url |-> ConcRelay,
                                 init |-> ConfiguredOptions(calls[c].endpoint[1],
                                                            calls[c].options[1])]>>
         /\ (calls[c].outcome # <<>> /\ calls[c].outcome[1].kind = "returned") =>
              LET r == calls[c].outcome[1].response[1]
                  own == calls[c].res[1]
              IN /\ ReadStatus(r) = ReceivedStatus(own)
                 /\ ReadProxyHeaders(r) = own.headers
                 /\ ReadHeaders(r) =
                      IF ReceivedHeaders(own).value # JSNull
                      THEN NewHeaders(ReceivedHeaders(own).value)
                      ELSE [threw |-> <<>>, headers |-> own.headers]

\* two calls in flight together have both returned, with different
\* arguments and different replies
C13_Witness ==
    /\ calls[1].pc = "done" /\ calls[2].pc = "done"
    /\ calls[1].outcome[1].kind = "returned"
    /\ calls[2].outcome[1].kind = "returned"
    /\ calls[1].endpoint # calls[2].endpoint
    /\ calls[1].options # calls[2].options
    /\ ReadStatus(calls[1].outcome[1].response[1]) = Num(404)
    /\ ReadStatus(calls[2].outcome[1].response[1]) = Num(200)

----------------------------------------------------------------------------
(* splitMessage *)

MaxTextLen == 4
MaxMaxLength == 3

\* String.prototype.split with a string separator; the empty separator
\* splits into the single characters
RECURSIVE SplitOnFrom(_, _, _, _, _)
SplitOnFrom(sep, s, p, q, acc) ==
    IF q + Len(sep) - 1 > Len(s) THEN Append(acc, SubSeq(s, p, Len(s)))
    ELSE IF SubSeq(s, q, q + Len(sep) - 1) = sep
         THEN SplitOnFrom(sep, s, q + Len(sep), q + Len(sep),
                          Append(acc, SubSeq(s, p, q - 1)))
         ELSE SplitOnFrom(sep, s, p, q + 1, acc)

SplitOn(sep, s) ==
    IF sep = <<>> THEN [i \in 1..Len(s) |-> <<s[i]>>]
    ELSE SplitOnFrom(sep, s, 1, 1, <<>>)

\* splitText.flatMap((chunk) => chunk.split(currentChar))
RECURSIVE FlatMapSplit(_, _)
FlatMapSplit(sep, chunks) ==
    IF chunks = <<>> THEN <<>>
    ELSE SplitOn(sep, Head(chunks)) \o FlatMapSplit(sep, Tail(chunks))

\* splitText.some((elem) => elem.length > maxLength)
SomeTooLong(chunks, maxLength) ==
    \E i \in 1..Len(chunks) : Len(chunks[i]) > maxLength

\* the while loop over an array of separators: the separators are shifted
\* off the caller's array while some piece is too long
RECURSIVE SplitByArray(_, _, _)
SplitByArray(items, splitText, maxLength) ==
    IF Len(items) > 0 /\ SomeTooLong(splitText, maxLength)
    THEN SplitByArray(Tail(items), FlatMapSplit(Head(items), splitText), maxLength)
    ELSE [char |-> items, splitText |-> splitText]

\* char as it is concatenated into a string: an array is joined with ","
CharText(char) ==
    IF char.type = "array" THEN Join(char.items, <<",">>) ELSE char.items[1]

\* the for loop over the pieces, from piece i on
RECURSIVE Accumulate(_, _, _, _, _, _, _, _)
Accumulate(splitText, i, msg, messages, sep, prepend, append, maxLength) ==
    IF i > Len(splitText) THEN [messages |-> messages, msg |-> msg]
    ELSE LET chunk == splitText[i]
             full == msg # <<>> /\ Len(msg \o sep \o chunk \o append) > maxLength
             messages1 == IF full THEN Append(messages, msg \o append) ELSE messages
             msg1 == IF full THEN prepend ELSE msg
             msg2 == msg1 \o (IF msg1 # <<>> /\ msg1 # prepend THEN sep ELSE <<>>)
                          \o chunk
         IN Accumulate(splitText, i + 1, msg2, messages1, sep, prepend, append,
                       maxLength)

\* messages.concat(msg).filter((m) => m)
NonEmpty(ms) == SelectSeq(ms, LAMBDA m : m # <<>>)

SplitMessage(text, maxLength, char, prepend, append) ==
    IF Len(text) <= maxLength THEN [threw |-> <<>>, value |-> <<text>>]
    ELSE LET split == IF char.type = "array"
                      THEN SplitByArray(char.items, <<text>>, maxLength)
                      ELSE [char |-> char.items,
                            splitText |-> SplitOn(char.items[1], text)]
             left == [type |-> char.type, items |-> split.char]
         IN IF SomeTooLong(split.splitText, maxLength)
            THEN [threw |-> <<"One or more of the split text items was out of the range.">>,
                  value |-> <<>>]
            ELSE LET r == Accumulate(split.splitText, 1, <<>>, <<>>, CharText(left),
                                     prepend, append, maxLength)
                 IN [threw |-> <<>>, value |-> NonEmpty(Append(r.messages, r.msg))]

\* the inputs: texts of letters, line feeds and spaces
SplitAlphabet == {"a", LF, " "}

SplitTexts == UNION {[1..n -> SplitAlphabet] : n \in 0..MaxTextLen}

SplitChars ==
    {[type |-> "string", items |-> <<<<LF>>>>],
     [type |-> "string", items |-> <<<<>>>>],
     [type |-> "array", items |-> <<<<LF>>, <<" ">>>>]}

SplitAffixes == {<<>>, <<"!">>}

\* splitMessage(text, { maxLength, char, prepend, append })
SplitMessageCall ==
    /\ smIn # <<>>
    /\ smOut = <<>>
    /\ smOut' = <<SplitMessage(smIn[1].text, smIn[1].maxLength, smIn[1].char,
                               smIn[1].prepend, smIn[1].append)>>
    /\ UNCHANGED <<smIn, proxyVars, parseVars, timeoutVars, concVars>>

InitSplit ==
    /\ \E t \in SplitTexts, m \in 1..MaxMaxLength, c \in SplitChars,
          pre \in SplitAffixes, app \in SplitAffixes :
         smIn = <<[text |-> t, maxLength |-> m, char |-> c, prepend |-> pre,
                   append |-> app]>>
    /\ smOut = <<>>
    /\ ProxyUnused
    /\ ParseUnused
    /\ TimeoutUnused
    /\ ConcUnused

NextSplit == SplitMessageCall

SpecSplit == InitSplit /\ [][NextSplit]_vars

\* C14: whenever splitMessage returns without throwing, every returned chunk
\* has length at most maxLength.
C14_ChunksWithinMaxLength ==
    (smOut # <<>> /\ smOut[1].threw = <<>>) =>
        \A i \in 1..Len(smOut[1].value) : Len(smOut[1].value[i]) <= smIn[1].maxLength

\* with neither prepend nor append the returned chunks stay within maxLength
ChunksWithinMaxLengthNoAffix ==
    (smOut # <<>> /\ smOut[1].threw = <<>>
       /\ smIn[1].prepend = <<>> /\ smIn[1].append = <<>>) =>
        \A i \in 1..Len(smOut[1].value) : Len(smOut[1].value[i]) <= smIn[1].maxLength

====
